---- MODULE Spec2Model ----
(***************************************************************************)
(* Model of app.py: a Streamlit front end that resolves typed or spoken    *)
(* commands through a Groq completion and issues HTTPS GET requests to an  *)
(* ESP8266 behind an ngrok tunnel.                                         *)
(*                                                                         *)
(* Strings are sequences of tokens.  A token is a word, a separator        *)
(* (":", "/", "https://"), or a whitespace character (" ", "\n").          *)
(* Substring operations (strip, splitlines, startswith, split, replace)    *)
(* are computed over tokens the way Python computes them over characters.  *)
(***************************************************************************)
EXTENDS Integers, Sequences, FiniteSets, TLC

VARIABLES
    GROQ_API_KEY,   \* st.secrets.get("GROQ_API_KEY"): [has, val]
    ESP_SECRET,     \* the ESP_HOST entry of st.secrets: [has, val]
    pc,             \* "start" | "stopped" | "ready" | "parse" | "parsed"
    status,         \* st.session_state.status: [has, val]
    trigger,        \* widget that started the last script run
    inText,         \* text_cmd / transcription outcome of the last run
    inOracle,       \* outcome of the chat completion call of the last run
    inDevice,       \* outcome of requests.get of the last run
    resolved,       \* return values of parse_command_with_groq in the last run
    sent,           \* send_command calls of the last run: <<[path, url]>>
    result,         \* return values of send_command in the last run
    shown,          \* st.success / st.error / st.warning calls of the last run
    spoken,         \* utterances emitted by speak_browser in the last run
    calls           \* outbound calls of the last run, in order

vars == <<GROQ_API_KEY, ESP_SECRET, pc, status, trigger, inText, inOracle,
          inDevice, resolved, sent, result, shown, spoken, calls>>

\* ------------------------------------------------------------------------
\* Bounds
\* ------------------------------------------------------------------------
MaxLines == 3

\* ------------------------------------------------------------------------
\* Optional values (Python None / missing key)
\* ------------------------------------------------------------------------
None == [has |-> FALSE, val |-> <<>>]

Some(v) == [has |-> TRUE, val |-> v]

\* "is not None" in place of truthiness
NotNone(o) == o.has

\* Python truthiness of an optional string
Truthy(o) == o.has /\ o.val # <<>>

\* ------------------------------------------------------------------------
\* String helpers
\* ------------------------------------------------------------------------
Whitespace == {" ", "\n"}

RECURSIVE LStrip(_)
LStrip(s) == IF s # <<>> /\ Head(s) \in Whitespace THEN LStrip(Tail(s)) ELSE s

RECURSIVE RStrip(_)
RStrip(s) ==
    IF s # <<>> /\ s[Len(s)] \in Whitespace
    THEN RStrip(SubSeq(s, 1, Len(s) - 1))
    ELSE s

Strip(s) == RStrip(LStrip(s))

StartsWith(s, p) == Len(s) >= Len(p) /\ SubSeq(s, 1, Len(p)) = p

\* str.splitlines(): pieces between "\n", no trailing empty piece
RECURSIVE SplitLinesAcc(_, _)
SplitLinesAcc(s, cur) ==
    IF s = <<>> THEN (IF cur = <<>> THEN <<>> ELSE <<cur>>)
    ELSE IF Head(s) = "\n" THEN <<cur>> \o SplitLinesAcc(Tail(s), <<>>)
    ELSE SplitLinesAcc(Tail(s), Append(cur, Head(s)))

SplitLines(s) == SplitLinesAcc(s, <<>>)

\* line.split(":", 1)[1] for a line that contains ":"
RECURSIVE AfterFirstColon(_)
AfterFirstColon(s) ==
    IF s = <<>> THEN <<>>
    ELSE IF Head(s) = ":" THEN Tail(s)
    ELSE AfterFirstColon(Tail(s))

\* the string left as it is
RemoveNothing(s, old) == s

\* str.replace(old, ""): remove every non-overlapping occurrence, left to right
RECURSIVE RemoveAll(_, _)
RemoveAll(s, old) ==
    IF s = <<>> \/ old = <<>> THEN s
    ELSE IF StartsWith(s, old)
         THEN RemoveAll(SubSeq(s, Len(old) + 1, Len(s)), old)
         ELSE <<Head(s)>> \o RemoveAll(Tail(s), old)

RECURSIVE JoinLines(_)
JoinLines(ls) ==
    IF ls = <<>> THEN <<>>
    ELSE IF Len(ls) = 1 THEN ls[1]
    ELSE ls[1] \o <<"\n">> \o JoinLines(Tail(ls))

\* ------------------------------------------------------------------------
\* Configuration and startup
\* ------------------------------------------------------------------------
DefaultHost == <<"https://", "c453-171-61-28-113.ngrok-free.app">>

\* ESP_HOST = st.secrets.get("ESP_HOST", <default>)
ESP_HOST == IF ESP_SECRET.has THEN ESP_SECRET.val ELSE DefaultHost

\* not GROQ_API_KEY or not GROQ_API_KEY.startswith("gsk_")
KeyInvalidNoPrefixCheck(key) == ~key.has \/ key.val = <<>>

KeyInvalid(key) == ~Truthy(key) \/ ~StartsWith(key.val, <<"gsk_">>)

\* not ESP_HOST
HostMissing(host) == host = <<>>

\* ------------------------------------------------------------------------
\* speak_browser
\* ------------------------------------------------------------------------
\* Empty text returns before any utterance is emitted.
speak_browser(text, said) == IF text = <<>> THEN said ELSE Append(said, text)

\* ------------------------------------------------------------------------
\* send_command
\* ------------------------------------------------------------------------
full_url(host, path) == <<"https://">> \o host \o path

send_command(host, path, r) ==
    IF r.kind = "http"
    THEN IF r.status_code = 200
         THEN [ok |-> TRUE, msg |-> Strip(r.text)]
         ELSE [ok |-> FALSE, msg |-> <<"HTTP", " ", ToString(r.status_code)>>]
    ELSE [ok |-> FALSE, msg |-> <<"Error", ":", " ">> \o r.detail]

\* ------------------------------------------------------------------------
\* parse_command_with_groq
\* ------------------------------------------------------------------------
DefaultSpeak == <<"Sorry, I didn't understand.">>

\* the for loop over answer.splitlines(), first match kept instead of last
RECURSIVE ScanLinesFirstWins(_, _, _, _, _)
ScanLinesFirstWins(lines, action, speak_text, gotA, gotS) ==
    IF lines = <<>> THEN [action |-> action, speak |-> speak_text]
    ELSE LET line == Strip(Head(lines)) IN
         IF StartsWith(line, <<"ACTION", ":">>)
         THEN ScanLinesFirstWins(Tail(lines),
                  IF gotA THEN action ELSE Some(Strip(AfterFirstColon(line))),
                  speak_text, TRUE, gotS)
         ELSE IF StartsWith(line, <<"SPEAK", ":">>)
         THEN ScanLinesFirstWins(Tail(lines), action,
                  IF gotS THEN speak_text ELSE Strip(AfterFirstColon(line)),
                  gotA, TRUE)
         ELSE ScanLinesFirstWins(Tail(lines), action, speak_text, gotA, gotS)

ScanLinesKeepFirst(lines, action, speak_text) ==
    ScanLinesFirstWins(lines, action, speak_text, FALSE, FALSE)

\* the for loop over answer.splitlines()
RECURSIVE ScanLines(_, _, _)
ScanLines(lines, action, speak_text) ==
    IF lines = <<>> THEN [action |-> action, speak |-> speak_text]
    ELSE LET line == Strip(Head(lines)) IN
         IF StartsWith(line, <<"ACTION", ":">>)
         THEN ScanLines(Tail(lines), Some(Strip(AfterFirstColon(line))), speak_text)
         ELSE IF StartsWith(line, <<"SPEAK", ":">>)
         THEN ScanLines(Tail(lines), action, Strip(AfterFirstColon(line)))
         ELSE ScanLines(Tail(lines), action, speak_text)

\* resp.choices[0].message.content for a reply made of the given lines
Content(resp) == JoinLines(resp.lines)

parse_command_with_groq(resp) ==
    IF resp.ok
    THEN LET answer == Strip(Content(resp))
             r      == ScanLines(SplitLines(answer), None, DefaultSpeak)
         IN  [action |-> IF r.action = Some(<<"NONE">>) THEN None ELSE r.action,
              speak  |-> r.speak]
    ELSE [action |-> None, speak |-> <<"Groq error", ":", " ">> \o resp.detail]

\* ------------------------------------------------------------------------
\* Inputs of a script run
\* ------------------------------------------------------------------------
NoDevice == [kind |-> "none", status_code |-> 0, text |-> <<>>, detail |-> <<>>]

\* outcomes of requests.get(full_url, timeout=10, verify=False)
DeviceOutcomes ==
    { [kind |-> "http", status_code |-> 200, text |-> <<" ", "D1", " ", "ON", "\n">>, detail |-> <<>>],
      [kind |-> "http", status_code |-> 500, text |-> <<"err">>, detail |-> <<>>],
      [kind |-> "http", status_code |-> 404, text |-> <<" ", "not", " ", "found", " ">>, detail |-> <<>>],
      [kind |-> "exc", status_code |-> 0, text |-> <<>>, detail |-> <<"Read timed out.">>] }

NoOracle == [ok |-> FALSE, lines |-> <<>>, detail |-> <<>>]

Reply(ls) == [ok |-> TRUE, lines |-> ls, detail |-> <<>>]

Routes ==
    { <<"/">>, <<"/", "d1", "/", "on">>, <<"/", "d1", "/", "off">>,
      <<"/", "d2", "/", "on">>, <<"/", "d2", "/", "off">> }

ActionLine(v) == <<"ACTION", ":", " ">> \o v

SpeakLine(v) == <<"SPEAK", ":", " ">> \o v

\* outcomes of groq_client.chat.completions.create(...) seen by the flows
OracleOutcomes(host) ==
    { Reply(<<ActionLine(<<"https://">> \o host \o <<"/", "d1", "/", "on">>),
              SpeakLine(<<"D1 is now on">>)>>),
      Reply(<<ActionLine(<<"https://">> \o host \o <<"/", "d1", "/", "off">>),
              <<"SPEAK", ":">>>>),
      Reply(<<ActionLine(<<"https://", "esp.ngrok-free.app", "/", "d2", "/", "on">>),
              SpeakLine(<<"D2 is now on">>)>>),
      Reply(<<ActionLine(<<"/", "d2", "/", "off">>), SpeakLine(<<"D2 is now off">>)>>),
      Reply(<<ActionLine(<<"NONE">>), SpeakLine(<<"Use the buttons to check status">>)>>),
      Reply(<<ActionLine(<<"NONE">>), <<"SPEAK", ":">>>>),
      Reply(<<ActionLine(<<"open", " ", "the", " ", "door">>), SpeakLine(<<"Done">>)>>),
      Reply(<<<<"ACTION", ":">>, SpeakLine(<<"Which output?">>)>>),
      Reply(<<SpeakLine(<<"Hello">>)>>),
      Reply(<<<<"I cannot help with that.">>>>),
      [ok |-> FALSE, lines |-> <<>>, detail |-> <<"Rate limit reached">>] }

NoText == [ok |-> FALSE, text |-> <<>>, detail |-> <<>>]

\* outcomes of groq_client.audio.transcriptions.create(...)
Transcriptions ==
    { [ok |-> TRUE, text |-> <<" ", "turn", " ", "on", " ", "d1", "\n">>, detail |-> <<>>],
      [ok |-> TRUE, text |-> <<" ", "\n">>, detail |-> <<>>],
      [ok |-> FALSE, text |-> <<>>, detail |-> <<"Invalid audio">>] }

\* values of the text_input widget when the send button is pressed
TextInputs ==
    { [ok |-> TRUE, text |-> <<" ", "turn", " ", "d1", " ", "on">>, detail |-> <<>>],
      [ok |-> TRUE, text |-> <<" ", " ">>, detail |-> <<>>] }

KeyValues ==
    { None, Some(<<>>), Some(<<"sk_", "live">>), Some(<<"gsk_", "live">>) }

HostValues ==
    { None, Some(<<>>), Some(<<"esp.ngrok-free.app">>), Some(<<"esp.ngrok-free.app", "/">>) }

Msg(kind, text) == [kind |-> kind, text |-> text]

\* ------------------------------------------------------------------------
\* Initial state and startup
\* ------------------------------------------------------------------------
Idle ==
    /\ trigger = "none"
    /\ inText = NoText
    /\ inOracle = NoOracle
    /\ inDevice = NoDevice
    /\ resolved = <<>>
    /\ sent = <<>>
    /\ result = <<>>
    /\ shown = <<>>
    /\ spoken = <<>>
    /\ calls = <<>>

Init ==
    /\ GROQ_API_KEY \in KeyValues
    /\ ESP_SECRET \in HostValues
    /\ pc = "start"
    /\ status = None
    /\ Idle

\* lines 10-25: the checks that end in st.stop()
Startup ==
    /\ pc = "start"
    /\ IF KeyInvalid(GROQ_API_KEY)
       THEN /\ pc' = "stopped"
            /\ shown' = <<Msg("error", <<"GROQ_API_KEY is missing or invalid">>)>>
       ELSE IF HostMissing(ESP_HOST)
       THEN /\ pc' = "stopped"
            /\ shown' = <<Msg("error", <<"ESP_HOST (ngrok address) is missing">>)>>
       ELSE /\ pc' = "ready"
            /\ shown' = shown
    /\ UNCHANGED <<GROQ_API_KEY, ESP_SECRET, status, trigger, inText, inOracle,
                   inDevice, resolved, sent, result, spoken, calls>>

\* ------------------------------------------------------------------------
\* Health check and manual buttons
\* ------------------------------------------------------------------------
HealthCheck ==
    /\ pc = "ready"
    /\ \E r \in DeviceOutcomes :
         LET path == <<"/">>
             res  == send_command(ESP_HOST, path, r)
         IN  /\ trigger' = "health"
             /\ inDevice' = r
             /\ sent' = <<[path |-> path, url |-> full_url(ESP_HOST, path)]>>
             /\ result' = <<res>>
             /\ calls' = <<"get">>
             /\ shown' = IF res.ok
                         THEN <<Msg("success", <<"ESP responds -> connection looks good">>)>>
                         ELSE <<Msg("error", <<"Cannot reach ESP -> ">> \o res.msg
                                   \o <<"\n", "\n", "Make sure: ...">>)>>
             /\ spoken' = <<>>
             /\ inText' = NoText
             /\ inOracle' = NoOracle
             /\ resolved' = <<>>
    /\ UNCHANGED <<GROQ_API_KEY, ESP_SECRET, pc, status>>

\* msg if ok else f"Error: {msg}", without the failure prefix
ButtonStatusRaw(res) == res.msg

\* msg if ok else f"Error: {msg}"
ButtonStatus(res) == IF res.ok THEN res.msg ELSE <<"Error", ":", " ">> \o res.msg

ManualButton(label, path, failSpeech) ==
    /\ pc = "ready"
    /\ \E r \in DeviceOutcomes :
         LET res == send_command(ESP_HOST, path, r)
         IN  /\ trigger' = label
             /\ inDevice' = r
             /\ sent' = <<[path |-> path, url |-> full_url(ESP_HOST, path)]>>
             /\ result' = <<res>>
             /\ calls' = <<"get">>
             /\ status' = Some(ButtonStatus(res))
             /\ spoken' = speak_browser(IF res.ok THEN res.msg ELSE failSpeech, <<>>)
             /\ shown' = <<>>
             /\ inText' = NoText
             /\ inOracle' = NoOracle
             /\ resolved' = <<>>
    /\ UNCHANGED <<GROQ_API_KEY, ESP_SECRET, pc>>

D1_ON == ManualButton("D1 ON", <<"/", "d1", "/", "on">>, <<"Failed to turn D1 on">>)

D1_OFF == ManualButton("D1 OFF", <<"/", "d2", "/", "off">>, <<"Failed to turn D1 off">>)

D2_ON == ManualButton("D2 ON", <<"/", "d2", "/", "on">>, <<"Failed to turn D2 on">>)

D2_OFF == ManualButton("D2 OFF", <<"/", "d2", "/", "off">>, <<"Failed to turn D2 off">>)

\* ------------------------------------------------------------------------
\* Voice and text commands
\* ------------------------------------------------------------------------
\* msg if ok else f"Failed: {msg}"
FlowResult(res) == IF res.ok THEN res.msg ELSE <<"Failed", ":", " ">> \o res.msg

\* speak_text or result
Or(a, b) == IF a # <<>> THEN a ELSE b

VoiceCommand ==
    /\ pc = "ready"
    /\ \E t \in Transcriptions, resp \in OracleOutcomes(ESP_HOST), r \in DeviceOutcomes :
         LET transcription == Strip(t.text)
             rc     == parse_command_with_groq(resp)
             path   == RemoveAll(rc.action.val, <<"https://">> \o ESP_HOST)
             res    == send_command(ESP_HOST, path, r)
             said   == <<Msg("write", <<"**You said:**", " ">> \o transcription)>>
         IN  /\ trigger' = "voice"
             /\ inText' = t
             /\ IF ~t.ok
                THEN /\ calls' = <<"transcribe">>
                     /\ inOracle' = NoOracle
                     /\ inDevice' = NoDevice
                     /\ resolved' = <<>>
                     /\ sent' = <<>>
                     /\ result' = <<>>
                     /\ shown' = <<Msg("error", <<"Voice processing failed", ":", " ">> \o t.detail)>>
                     /\ spoken' = speak_browser(<<"Sorry, voice processing failed.">>, <<>>)
                ELSE IF transcription = <<>>
                THEN /\ calls' = <<"transcribe">>
                     /\ inOracle' = NoOracle
                     /\ inDevice' = NoDevice
                     /\ resolved' = <<>>
                     /\ sent' = <<>>
                     /\ result' = <<>>
                     /\ shown' = said
                     /\ spoken' = <<>>
                ELSE IF Truthy(rc.action)
                THEN /\ calls' = <<"transcribe", "chat", "get">>
                     /\ inOracle' = resp
                     /\ inDevice' = r
                     /\ resolved' = <<rc>>
                     /\ sent' = <<[path |-> path, url |-> full_url(ESP_HOST, path)]>>
                     /\ result' = <<res>>
                     /\ shown' = Append(said, Msg("success", FlowResult(res)))
                     /\ spoken' = speak_browser(Or(rc.speak, FlowResult(res)), <<>>)
                ELSE /\ calls' = <<"transcribe", "chat">>
                     /\ inOracle' = resp
                     /\ inDevice' = NoDevice
                     /\ resolved' = <<rc>>
                     /\ sent' = <<>>
                     /\ result' = <<>>
                     /\ shown' = Append(said, Msg("warning", rc.speak))
                     /\ spoken' = speak_browser(rc.speak, <<>>)
    /\ UNCHANGED <<GROQ_API_KEY, ESP_SECRET, pc, status>>

TextCommand ==
    /\ pc = "ready"
    /\ \E t \in TextInputs, resp \in OracleOutcomes(ESP_HOST), r \in DeviceOutcomes :
         LET text_cmd == t.text
             rc     == parse_command_with_groq(resp)
             path   == RemoveAll(rc.action.val, <<"https://">> \o ESP_HOST)
             res    == send_command(ESP_HOST, path, r)
         IN  /\ trigger' = "text"
             /\ inText' = t
             /\ IF Strip(text_cmd) = <<>>
                THEN /\ calls' = <<>>
                     /\ inOracle' = NoOracle
                     /\ inDevice' = NoDevice
                     /\ resolved' = <<>>
                     /\ sent' = <<>>
                     /\ result' = <<>>
                     /\ shown' = <<>>
                     /\ spoken' = <<>>
                ELSE IF Truthy(rc.action)
                THEN /\ calls' = <<"chat", "get">>
                     /\ inOracle' = resp
                     /\ inDevice' = r
                     /\ resolved' = <<rc>>
                     /\ sent' = <<[path |-> path, url |-> full_url(ESP_HOST, path)]>>
                     /\ result' = <<res>>
                     /\ shown' = <<Msg("success", FlowResult(res))>>
                     /\ spoken' = speak_browser(Or(rc.speak, FlowResult(res)), <<>>)
                ELSE /\ calls' = <<"chat">>
                     /\ inOracle' = resp
                     /\ inDevice' = NoDevice
                     /\ resolved' = <<rc>>
                     /\ sent' = <<>>
                     /\ result' = <<>>
                     /\ shown' = <<Msg("warning", rc.speak)>>
                     /\ spoken' = speak_browser(rc.speak, <<>>)
    /\ UNCHANGED <<GROQ_API_KEY, ESP_SECRET, pc, status>>

\* ------------------------------------------------------------------------
\* Specification of the application
\* ------------------------------------------------------------------------
Next ==
    \/ Startup
    \/ HealthCheck
    \/ D1_ON
    \/ D1_OFF
    \/ D2_ON
    \/ D2_OFF
    \/ VoiceCommand
    \/ TextCommand

Spec == Init /\ [][Next]_vars

\* ------------------------------------------------------------------------
\* Specification of the reply parser alone
\* ------------------------------------------------------------------------
ReplyLines ==
    { <<"ACTION", ":", " ", "NONE">>,
      <<"ACTION", ":", " ", "https://", "host", "/", "d1", "/", "on">>,
      <<" ", "ACTION", ":", "/", "d2", "/", "off", " ">>,
      <<"ACTION", ":">>,
      <<"ACTION", ":", " ", "NONE", " ", "please">>,
      <<"ACTION", " ", ":", " ", "NONE">>,
      <<"note", " ", "ACTION", ":", " ", "NONE">>,
      <<"SPEAK", ":", " ", "D1 is now on">>,
      <<" ", "SPEAK", ":", "time", ":", " ", "now", " ">>,
      <<"SPEAK", ":", " ">>,
      <<"hello">>,
      <<>> }

RECURSIVE SeqsUpTo(_, _)
SeqsUpTo(S, n) ==
    IF n = 0 THEN {<<>>}
    ELSE LET shorter == SeqsUpTo(S, n - 1)
         IN  shorter \cup {Append(q, x) : q \in shorter, x \in S}

InitParse ==
    /\ GROQ_API_KEY = Some(<<"gsk_", "live">>)
    /\ ESP_SECRET = None
    /\ pc = "parse"
    /\ status = None
    /\ trigger = "none"
    /\ inText = NoText
    /\ inOracle \in {Reply(ls) : ls \in SeqsUpTo(ReplyLines, MaxLines)}
    /\ inDevice = NoDevice
    /\ resolved = <<>>
    /\ sent = <<>>
    /\ result = <<>>
    /\ shown = <<>>
    /\ spoken = <<>>
    /\ calls = <<>>

ParseReply ==
    /\ pc = "parse"
    /\ pc' = "parsed"
    /\ resolved' = <<parse_command_with_groq(inOracle)>>
    /\ calls' = <<"chat">>
    /\ UNCHANGED <<GROQ_API_KEY, ESP_SECRET, status, trigger, inText, inOracle,
                   inDevice, sent, result, shown, spoken>>

NextParse == ParseReply

SpecParse == InitParse /\ [][NextParse]_vars

\* ------------------------------------------------------------------------
\* Vocabulary of the properties
\* ------------------------------------------------------------------------
Buttons == {"D1 ON", "D1 OFF", "D2 ON", "D2 OFF"}

\* a script run that did outbound work
Completed == trigger # "none" /\ calls # <<>>

NonSpace(s) == {i \in 1..Len(s) : s[i] \notin Whitespace}

Min(S) == CHOOSE i \in S : \A j \in S : i <= j

Max(S) == CHOOSE i \in S : \A j \in S : j <= i

\* s without leading and trailing whitespace, stated by positions
Trimmed(s) == IF NonSpace(s) = {} THEN <<>> ELSE SubSeq(s, Min(NonSpace(s)), Max(NonSpace(s)))

\* the part of s after its first colon, stated by positions
AfterColon(s) ==
    LET cs == {i \in 1..Len(s) : s[i] = ":"}
    IN  IF cs = {} THEN <<>> ELSE SubSeq(s, Min(cs) + 1, Len(s))

\* indices of the lines whose trimmed content starts with <keyword>:
Matching(lines, keyword) ==
    {i \in 1..Len(lines) : Len(Trimmed(lines[i])) >= 2
                           /\ Trimmed(lines[i])[1] = keyword
                           /\ Trimmed(lines[i])[2] = ":"}

ValueAt(lines, i) == Trimmed(AfterColon(Trimmed(lines[i])))

ExpectedAction(lines) ==
    LET m == Matching(lines, "ACTION")
    IN  IF m = {} THEN None
        ELSE IF ValueAt(lines, Max(m)) = <<"NONE">> THEN None
        ELSE Some(ValueAt(lines, Max(m)))

ExpectedSpeak(lines) ==
    LET m == Matching(lines, "SPEAK")
    IN  IF m = {} THEN <<"Sorry, I didn't understand.">> ELSE ValueAt(lines, Max(m))

Count(s, x) == Cardinality({i \in 1..Len(s) : s[i] = x})

\* ------------------------------------------------------------------------
\* C1
\* ------------------------------------------------------------------------
OwnRoute(label) ==
    CASE label = "D1 ON"  -> <<"/", "d1", "/", "on">>
      [] label = "D1 OFF" -> <<"/", "d1", "/", "off">>
      [] label = "D2 ON"  -> <<"/", "d2", "/", "on">>
      [] label = "D2 OFF" -> <<"/", "d2", "/", "off">>

\* C1: each of the four buttons requests the route of its own output and
\* state, so no two buttons request the same path.
C1_ButtonRequestsOwnRoute ==
    trigger \in Buttons => Len(sent) = 1 /\ sent[1].path = OwnRoute(trigger)

\* ------------------------------------------------------------------------
\* C2
\* ------------------------------------------------------------------------
\* C2: status 200 gives (true, trimmed body); any other status gives
\* (false, "HTTP <status> - <trimmed body>").  The token "-" is the dash
\* (U+2013) of the message.
C2_HttpResultCarriesStatusAndBody ==
    (Len(result) = 1 /\ inDevice.kind = "http") =>
        result[1] = IF inDevice.status_code = 200
                    THEN [ok |-> TRUE, msg |-> Trimmed(inDevice.text)]
                    ELSE [ok |-> FALSE,
                          msg |-> <<"HTTP", " ", ToString(inDevice.status_code), " ", "-", " ">>
                                  \o Trimmed(inDevice.text)]

\* ------------------------------------------------------------------------
\* C3
\* ------------------------------------------------------------------------
\* C3: a transport failure gives (false, "Connection failed: <detail>").
C3_TransportFailureIsConnectionFailed ==
    (Len(result) = 1 /\ inDevice.kind = "exc") =>
        result[1] = [ok |-> FALSE,
                     msg |-> <<"Connection failed", ":", " ">> \o inDevice.detail]

\* ------------------------------------------------------------------------
\* C4
\* ------------------------------------------------------------------------
NoDoubledSlash(url) == \A i \in 1..(Len(url) - 1) : ~(url[i] = "/" /\ url[i + 1] = "/")

\* C4: for every route and every accepted host, the requested URL is the
\* scheme once, then the host, then the path, with no doubled separator.
C4_UrlWellFormed ==
    \A i \in 1..Len(sent) :
        sent[i].path \in Routes =>
            /\ sent[i].url = <<"https://">> \o ESP_HOST \o sent[i].path
            /\ Count(sent[i].url, "https://") = 1
            /\ NoDoubledSlash(sent[i].url)

\* ------------------------------------------------------------------------
\* C5
\* ------------------------------------------------------------------------
\* the message a run produced for the user
ProducedMessage ==
    IF trigger \in Buttons
    THEN (IF result[1].ok THEN result[1].msg ELSE <<"Error", ":", " ">> \o result[1].msg)
    ELSE IF shown # <<>> THEN shown[Len(shown)].text
    ELSE <<>>

\* C5 as stated: after every completed interaction the session status is the
\* message of that interaction.
C5_StatusIsMessageOfEveryInteraction ==
    Completed => status = Some(ProducedMessage)

\* C5 amended: a button run overwrites the session status with its result
\* (the body on success, "Error: " and the message on failure); every other
\* run leaves the session status as it was.
C5_ButtonsOverwriteStatus ==
    [][/\ trigger' \in Buttons =>
             status' = Some(IF result'[1].ok
                            THEN result'[1].msg
                            ELSE <<"Error", ":", " ">> \o result'[1].msg)
       /\ trigger' \notin Buttons => status' = status]_vars

C5_Witness ==
    /\ trigger = "D2 ON"
    /\ inDevice.kind = "http" /\ inDevice.status_code = 500
    /\ status = Some(<<"Error", ":", " ", "HTTP", " ", "500">>)

\* ------------------------------------------------------------------------
\* C6
\* ------------------------------------------------------------------------
DispatchFailed == Len(result) = 1 /\ inDevice.kind # "none"
                  /\ ~(inDevice.kind = "http" /\ inDevice.status_code = 200)

OracleFailed == "chat" \in {calls[i] : i \in 1..Len(calls)} /\ ~inOracle.ok

TranscriptionFailed == trigger = "voice" /\ (~inText.ok \/ Trimmed(inText.text) = <<>>)

Unparseable == inOracle.ok /\ Matching(inOracle.lines, "ACTION") = {}
               /\ Matching(inOracle.lines, "SPEAK") = {}

FailedRun == DispatchFailed \/ OracleFailed \/ TranscriptionFailed \/ Unparseable

VisibleMessage ==
    \/ \E i \in 1..Len(shown) :
          shown[i].kind \in {"success", "error", "warning"} /\ shown[i].text # <<>>
    \/ trigger \in Buttons /\ status.has /\ status.val # <<>>

\* C6: every failed interaction shows a non-empty message and speaks a
\* non-empty message of that failure, never the oracle's confirmation.
C6_FailuresShownAndSpoken ==
    FailedRun =>
        /\ VisibleMessage
        /\ spoken # <<>>
        /\ (DispatchFailed /\ Len(resolved) = 1) => spoken[1] # resolved[1].speak

\* ------------------------------------------------------------------------
\* C7
\* ------------------------------------------------------------------------
\* C7: the parser returns the value of the last ACTION: line (absent when
\* there is none or the value is NONE) and the value of the last SPEAK: line
\* (the default sentence when there is none).
C7_LastMatchingLineWins ==
    pc = "parsed" =>
        resolved = <<[action |-> ExpectedAction(inOracle.lines),
                      speak  |-> ExpectedSpeak(inOracle.lines)]>>

C7_Witness ==
    /\ pc = "parsed"
    /\ Cardinality(Matching(inOracle.lines, "ACTION")) = 2
    /\ ValueAt(inOracle.lines, Min(Matching(inOracle.lines, "ACTION")))
         # ValueAt(inOracle.lines, Max(Matching(inOracle.lines, "ACTION")))
    /\ resolved[1].action = Some(<<"/", "d2", "/", "off">>)
    /\ resolved[1].speak = <<"time", ":", " ", "now">>

\* ------------------------------------------------------------------------
\* C8
\* ------------------------------------------------------------------------
CredentialBad ==
    \/ ~GROQ_API_KEY.has
    \/ GROQ_API_KEY.val = <<>>
    \/ GROQ_API_KEY.val[1] # "gsk_"

Halted ==
    /\ pc # "ready"
    /\ trigger = "none"
    /\ calls = <<>>
    /\ sent = <<>>
    /\ pc = "stopped" => ~ENABLED Next

\* C8 as stated: a bad credential, or a device host that is not configured,
\* halts the program before any control surface or request.
C8_MissingConfigHalts ==
    (CredentialBad \/ ~ESP_SECRET.has \/ ESP_SECRET.val = <<>>) => Halted

\* C8 amended: a bad credential, or a device host configured as the empty
\* value, halts the program; a host that is not configured is replaced by
\* the built-in default and does not halt it.
C8_InvalidConfigHalts ==
    /\ (CredentialBad \/ (ESP_SECRET.has /\ ESP_SECRET.val = <<>>)) => Halted
    /\ (~CredentialBad /\ ~ESP_SECRET.has /\ pc # "start") => pc = "ready"

C8_Witness ==
    /\ pc = "stopped"
    /\ GROQ_API_KEY = Some(<<"sk_", "live">>)
    /\ ESP_SECRET = Some(<<"esp.ngrok-free.app">>)
    /\ shown # <<>>

\* ------------------------------------------------------------------------
\* C9
\* ------------------------------------------------------------------------
Positions(x) == {i \in 1..Len(calls) : calls[i] = x}

ResolverAbsent ==
    \/ ~inOracle.ok
    \/ ExpectedAction(inOracle.lines) = None
    \/ ExpectedAction(inOracle.lines) = Some(<<>>)

C10_PathIsAlwaysARoute ==
    \A i \in 1..Len(sent) :
        /\ sent[i].path # <<>>
        /\ sent[i].path[1] = "/"
        /\ sent[i].path \in Routes

\* C10 amended: the health check and the buttons pass one of the five
\* routes; the text and voice flows pass the route when the ACTION value is
\* a route or https://<ESP_HOST><route>, and do not validate other values.
C10_RouteAfterBaseRemoval ==
    /\ trigger \in Buttons \cup {"health"} =>
         \A i \in 1..Len(sent) : sent[i].path \in Routes
    /\ (trigger \in {"text", "voice"} /\ sent # <<>>) =>
         \A rt \in Routes :
             ExpectedAction(inOracle.lines) \in
                 {Some(rt), Some(<<"https://">> \o ESP_HOST \o rt)}
             => sent[1].path = rt

C10_Witness ==
    /\ trigger = "text"
    /\ ExpectedAction(inOracle.lines) = Some(<<"https://">> \o ESP_HOST \o <<"/", "d1", "/", "on">>)
    /\ Len(sent) = 1
    /\ sent[1].path = <<"/", "d1", "/", "on">>

====
